---- MODULE Spec2Model ----
(***************************************************************************)
(* A model of the one_d_six dice library: Rollable::roll, Die, Dice        *)
(* (new, from, roll_all, current_faces, total, + and FromStr) over the     *)
(* face type u8 (the calls the tests make on wider face types stay below   *)
(* 256 and go the same way).  A caller holds up to two Dice bindings and   *)
(* one Die binding; every library call is one atomic step.  Four callers   *)
(* are explored: an arbitrary caller within the bounds below, the usage    *)
(* example of tests/readme.rs, a caller that parses arbitrary strings, and *)
(* a caller working at the maximum of the face type.                       *)
(*                                                                         *)
(* A call that can panic or return is modelled by the set of its outcomes: *)
(* records with ok = TRUE and the returned value, and the record with      *)
(* ok = FALSE when the call panics.  Randomness is the choice among the    *)
(* outcomes.                                                               *)
(***************************************************************************)
EXTENDS Integers, Sequences, FiniteSets, TLC

VARIABLES
    rev,      \* which revision of Rollable::roll is built: "range" or "modulo"
    pools,    \* the caller's Dice bindings: slot -> [live, dice]
    die,      \* the caller's Die binding: [live, faces, current_value]
    result,   \* the last library call and what it returned
    pc,       \* the caller, and its position when it is a script
    cli       \* the command line program: its inputs, its position, its output

vars == <<rev, pools, die, result, pc, cli>>

----------------------------------------------------------------------------
(* Bounds of the exploration *)

\* dice alive at once, over all bindings
MaxDice == 3
\* length of the generated notation strings
MaxLen == 3
\* joint outcomes (product of the faces) of the dice alive at once
MaxCombos == 8
MaxArgs == 2

(* The face type *)
FaceBits == 8
FaceMax == 2^FaceBits - 1

Slots == {"A", "B"}
Revisions == {"range", "modulo"}

\* faces handed to Die::new and Dice::new by the caller
FaceInputs == {0, 1, 2, 4}

\* characters of the generated notation strings
Alphabet == {"0", "1", "2", "d", "x"}

Digits == {"0", "1", "2", "3", "4", "5", "6", "7", "8", "9"}

RECURSIVE StringsOfLen(_)
StringsOfLen(n) ==
    IF n = 0 THEN {<<>>}
    ELSE {Append(s, c) : s \in StringsOfLen(n - 1), c \in Alphabet}

\* strings of the documentation, the tests and the specification's examples
Examples ==
    { <<"3", "d", "6">>, <<"3", "d", "4">>, <<"1", "d", "2", "0">>,
      <<"3", "-", "6">>, <<"x", "d", "6">>, <<"3", "d", "y">>,
      <<"3", "d", "6", "d", "8">>, <<"1", "d", "3", "0", "0">>,
      <<"+", "2", "d", "+", "4">>, <<"-", "1", "d", "2">>,
      <<"1", " ", "d", "2">> }

Inputs == Examples \cup UNION {StringsOfLen(n) : n \in 0..MaxLen}

\* strings the arbitrary caller parses
Notations ==
    { <<"1", "d", "2">>, <<"2", "d", "2">>, <<"0", "d", "4">>, <<"1", "d", "0">>,
      <<"3", "-", "6">> }

\* count and faces of the pools built at the edge of the face type
EdgePools == { <<0, FaceMax>>, <<1, FaceMax>>, <<2, 128>> }

----------------------------------------------------------------------------
(* Arithmetic of the face type *)

Panic == [ok |-> FALSE, v |-> 0]
Val(x) == [ok |-> TRUE, v |-> x]

\* a + b in the face type: the sum when it fits; on overflow the build
\* decides: a debug build panics, a release build wraps
AddT(a, b) ==
    IF a + b <= FaceMax THEN {Val(a + b)}
    ELSE {Panic, Val((a + b) % (2^FaceBits))}

----------------------------------------------------------------------------
(* Rollable.  draws counts the values taken from the generator. *)

\* rand's gen_range(low, high): asserts low < high, then a value of [low, high)
gen_range(low, high) ==
    IF ~(low < high) THEN {[ok |-> FALSE, v |-> 0, draws |-> 0]}
    ELSE {[ok |-> TRUE, v |-> r, draws |-> 1] : r \in low..(high - 1)}

\* roll_range with the upper end of the range included
roll_range_inclusive(max) ==
    UNION { IF g.ok THEN {[ok |-> a.ok, v |-> a.v, draws |-> g.draws] : a \in AddT(g.v, 1)}
            ELSE {g}
            : g \in gen_range(0, max + 1) }

\* rollable.rs: rand::thread_rng().gen_range(0, max) + 1
roll_range(max) ==
    UNION { IF g.ok THEN {[ok |-> a.ok, v |-> a.v, draws |-> g.draws] : a \in AddT(g.v, 1)}
            ELSE {g}
            : g \in gen_range(0, max) }

\* lib.rs: let r: u8 = rand::random(); (r % max) + 1
roll_modulo(max) ==
    IF max = 0 THEN {[ok |-> FALSE, v |-> 0, draws |-> 1]}
    ELSE UNION { {[ok |-> a.ok, v |-> a.v, draws |-> 1] : a \in AddT(r % max, 1)}
                 : r \in 0..FaceMax }

\* the outcomes of T::roll for every max of the face type, per revision
RollOutcomes ==
    [r \in Revisions |->
        [max \in 0..FaceMax |-> IF r = "modulo" THEN roll_modulo(max) ELSE roll_range(max)]]

roll(max) == RollOutcomes[rev][max]

----------------------------------------------------------------------------
(* Die *)

NoDie == [live |-> FALSE, faces |-> 0, current_value |-> 0]
DiePanic(k) == [ok |-> FALSE, die |-> [faces |-> 0, current_value |-> 0], draws |-> k]

Die_new(faces) ==
    { IF o.ok
      THEN [ok |-> TRUE, die |-> [faces |-> faces, current_value |-> o.v], draws |-> o.draws]
      ELSE DiePanic(o.draws) : o \in roll(faces) }

Die_roll(d) ==
    { IF o.ok
      THEN [ok |-> TRUE, die |-> [d EXCEPT !.current_value = o.v], draws |-> o.draws]
      ELSE DiePanic(o.draws) : o \in roll(d.faces) }

current_face(d) == d.current_value

----------------------------------------------------------------------------
(* Dice *)

NoPool == [live |-> FALSE, dice |-> <<>>]
DicePanic(k) == [ok |-> FALSE, dice |-> <<>>, draws |-> k]

\* Dice_new with the loop run once more: for _ in 0..=dice
RECURSIVE Dice_new_inclusive(_, _)
Dice_new_inclusive(n, faces) ==
    LET more == { IF d.ok
                  THEN [ok |-> TRUE, dice |-> <<d.die>>, draws |-> d.draws]
                  ELSE DicePanic(d.draws) : d \in Die_new(faces) }
        step(ps) == UNION { IF ~p.ok THEN {p}
                            ELSE { IF d.ok
                                   THEN [ok |-> TRUE, dice |-> Append(p.dice, d.die),
                                         draws |-> p.draws + d.draws]
                                   ELSE DicePanic(p.draws + d.draws) : d \in Die_new(faces) }
                            : p \in ps }
    IN  IF n = 0 THEN more ELSE step(Dice_new_inclusive(n - 1, faces))

\* for _ in 0..dice { v.push(Die::new(faces)) }
RECURSIVE Dice_new(_, _)
Dice_new(n, faces) ==
    IF n = 0 THEN {[ok |-> TRUE, dice |-> <<>>, draws |-> 0]}
    ELSE UNION { IF ~p.ok THEN {p}
                 ELSE { IF d.ok
                        THEN [ok |-> TRUE, dice |-> Append(p.dice, d.die),
                              draws |-> p.draws + d.draws]
                        ELSE DicePanic(p.draws + d.draws) : d \in Die_new(faces) }
                 : p \in Dice_new(n - 1, faces) }

\* Dice::from(Box<[Die]>): wraps the dice as they are
Dice_from(ds) == ds

current_faces(dice) == [i \in 1..Len(dice) |-> current_face(dice[i])]

\* self.dice.iter_mut().map(|die| die.roll()): the first k dice rolled in order
RECURSIVE roll_first(_, _)
roll_first(dice, k) ==
    IF k = 0 THEN {[ok |-> TRUE, dice |-> dice, draws |-> 0]}
    ELSE UNION { IF ~p.ok THEN {p}
                 ELSE { IF d.ok
                        THEN [ok |-> TRUE, dice |-> [p.dice EXCEPT ![k] = d.die],
                              draws |-> p.draws + d.draws]
                        ELSE DicePanic(p.draws + d.draws) : d \in Die_roll(p.dice[k]) }
                 : p \in roll_first(dice, k - 1) }

\* roll_all that stops one die early
roll_all_but_last(dice) == roll_first(dice, IF Len(dice) = 0 THEN 0 ELSE Len(dice) - 1)

roll_all(dice) == roll_first(dice, Len(dice))

\* dice_faces.iter().sum(): a left fold of + from 0
RECURSIVE sum_first(_, _)
sum_first(fs, k) ==
    IF k = 0 THEN {Val(0)}
    ELSE UNION { IF ~p.ok THEN {Panic} ELSE AddT(p.v, fs[k]) : p \in sum_first(fs, k - 1) }

dice_total(fs) == sum_first(fs, Len(fs))

total(dice) == dice_total(current_faces(dice))

\* for die in src.into_iter() { dice.push(die) }
RECURSIVE push_all(_, _, _)
push_all(dst, src, i) ==
    IF i > Len(src) THEN dst ELSE push_all(Append(dst, src[i]), src, i + 1)

\* add with the operands pushed in the other order
add_swapped(self, other) == push_all(push_all(<<>>, other, 1), self, 1)

add(self, other) == push_all(push_all(<<>>, self, 1), other, 1)

----------------------------------------------------------------------------
(* FromStr *)

DigitVal(c) ==
    CASE c = "0" -> 0 [] c = "1" -> 1 [] c = "2" -> 2 [] c = "3" -> 3 [] c = "4" -> 4
      [] c = "5" -> 5 [] c = "6" -> 6 [] c = "7" -> 7 [] c = "8" -> 8 [] c = "9" -> 9

\* s.split('d'): the pieces of s between the separators, at least one piece
RECURSIVE split(_, _, _, _)
split(s, sep, i, cur) ==
    IF i > Len(s) THEN <<cur>>
    ELSE IF s[i] = sep THEN <<cur>> \o split(s, sep, i + 1, <<>>)
    ELSE split(s, sep, i + 1, Append(cur, s[i]))

\* str::parse for an unsigned integer: an optional '+', then one or more
\* decimal digits, the value checked against the type's maximum at each digit.
\* ok = FALSE is Err(ParseIntError).  limit < 0 stands for usize, which no
\* literal of the explored lengths exceeds.
RECURSIVE parse_digits(_, _, _, _)
parse_digits(s, i, acc, limit) ==
    IF i > Len(s) THEN Val(acc)
    ELSE IF s[i] \notin Digits THEN Panic
    ELSE LET n == acc * 10 + DigitVal(s[i])
         IN  IF limit >= 0 /\ n > limit THEN Panic
             ELSE parse_digits(s, i + 1, n, limit)

parse_unsigned(s, limit) ==
    IF Len(s) = 0 THEN Panic
    ELSE LET digits == IF s[1] = "+" THEN SubSeq(s, 2, Len(s)) ELSE s
         IN  IF Len(digits) = 0 THEN Panic ELSE parse_digits(digits, 1, 0, limit)

MissingD == "Missing 'd'"
ImproperFormat == "Improper dice format"

\* parse_operands with the two operands taken in the other order
parse_operands_swapped(s) ==
    LET it == split(s, "d", 1, <<>>)
    IN  IF Len(it) < 2 THEN [kind |-> "Err", msg |-> MissingD, n |-> 0, f |-> 0]
        ELSE LET d == parse_unsigned(it[2], 0 - 1)
                 f == parse_unsigned(it[1], FaceMax)
             IN  IF d.ok /\ f.ok
                 THEN [kind |-> "Ok", msg |-> "", n |-> d.v, f |-> f.v]
                 ELSE [kind |-> "Err", msg |-> ImproperFormat, n |-> 0, f |-> 0]

\* parse_operands with the operands checked before the separator
parse_operands_operands_first(s) ==
    LET it == split(s, "d", 1, <<>>)
        d == parse_unsigned(it[1], 0 - 1)
        f == IF Len(it) < 2 THEN Panic ELSE parse_unsigned(it[2], FaceMax)
    IN  IF ~d.ok THEN [kind |-> "Err", msg |-> ImproperFormat, n |-> 0, f |-> 0]
        ELSE IF Len(it) < 2 THEN [kind |-> "Err", msg |-> MissingD, n |-> 0, f |-> 0]
        ELSE IF ~f.ok THEN [kind |-> "Err", msg |-> ImproperFormat, n |-> 0, f |-> 0]
        ELSE [kind |-> "Ok", msg |-> "", n |-> d.v, f |-> f.v]

\* the part of from_str before Dice::new: Err(message), or the two operands
parse_operands(s) ==
    LET it == split(s, "d", 1, <<>>)
    IN  IF Len(it) < 2 THEN [kind |-> "Err", msg |-> MissingD, n |-> 0, f |-> 0]
        ELSE LET d == parse_unsigned(it[1], 0 - 1)
                 f == parse_unsigned(it[2], FaceMax)
             IN  IF d.ok /\ f.ok
                 THEN [kind |-> "Ok", msg |-> "", n |-> d.v, f |-> f.v]
                 ELSE [kind |-> "Err", msg |-> ImproperFormat, n |-> 0, f |-> 0]

\* from_str that never builds fewer than one die
from_str_at_least_one(s) ==
    LET a == parse_operands(s)
    IN  IF a.kind = "Err"
        THEN {[kind |-> "Err", msg |-> a.msg, dice |-> <<>>, draws |-> 0]}
        ELSE { IF p.ok THEN [kind |-> "Ok", msg |-> "", dice |-> p.dice, draws |-> p.draws]
               ELSE [kind |-> "Panic", msg |-> "", dice |-> <<>>, draws |-> p.draws]
               : p \in Dice_new(IF a.n = 0 THEN 1 ELSE a.n, a.f) }

from_str(s) ==
    LET a == parse_operands(s)
    IN  IF a.kind = "Err"
        THEN {[kind |-> "Err", msg |-> a.msg, dice |-> <<>>, draws |-> 0]}
        ELSE { IF p.ok THEN [kind |-> "Ok", msg |-> "", dice |-> p.dice, draws |-> p.draws]
               ELSE [kind |-> "Panic", msg |-> "", dice |-> <<>>, draws |-> p.draws]
               : p \in Dice_new(a.n, a.f) }

----------------------------------------------------------------------------
(* The quick-roll helpers: kind, the Err message, the value returned and   *)
(* the random values taken.                                                *)

Quick(kind, msg, v, draws) == [kind |-> kind, msg |-> msg, v |-> v, draws |-> draws]

\* let dice: Dice<T> = dice_format.parse()?; Ok(dice.total())
try_quickroll(dice_format) ==
    UNION { IF o.kind = "Ok"
            THEN { IF t.ok THEN Quick("Ok", "", t.v, o.draws)
                           ELSE Quick("Panic", "", 0, o.draws) : t \in total(o.dice) }
            ELSE {Quick(o.kind, o.msg, 0, o.draws)}
          : o \in from_str(dice_format) }

\* let dice: Dice<T> = dice_format.parse().unwrap(); dice.total()
quickroll(dice_format) ==
    UNION { IF o.kind = "Ok"
            THEN { IF t.ok THEN Quick("Ok", "", t.v, o.draws)
                           ELSE Quick("Panic", "", 0, o.draws) : t \in total(o.dice) }
            ELSE {Quick("Panic", o.msg, 0, o.draws)}
          : o \in from_str(dice_format) }

----------------------------------------------------------------------------
(* Display and Debug.  A formatter returns Ok with the text written, or    *)
(* Err(fmt::Error); it panics when the total it renders overflows in a     *)
(* debug build.                                                            *)

DigitChar(d) ==
    CASE d = 0 -> "0" [] d = 1 -> "1" [] d = 2 -> "2" [] d = 3 -> "3" [] d = 4 -> "4"
      [] d = 5 -> "5" [] d = 6 -> "6" [] d = 7 -> "7" [] d = 8 -> "8" [] d = 9 -> "9"

\* write!(f, "{}", v) for an unsigned integer: its decimal digits
RECURSIVE to_decimal(_)
to_decimal(v) ==
    IF v < 10 THEN <<DigitChar(v)>>
    ELSE to_decimal(v \div 10) \o <<DigitChar(v % 10)>>

FmtOk(text) == [kind |-> "Ok", text |-> text]
FmtErr == [kind |-> "Err", text |-> <<>>]
FmtPanic == [kind |-> "Panic", text |-> <<>>]

\* Display that renders the number of dice
Dice_display_len(dice) == {FmtOk(to_decimal(Len(dice)))}

\* impl fmt::Display for Dice: write!(f, "{}", self.total())
Dice_display(dice) ==
    { IF t.ok THEN FmtOk(to_decimal(t.v)) ELSE FmtPanic : t \in total(dice) }

\* for die in iter { write!(f, " {}", die.current_face()) }, from the i-th die
RECURSIVE debug_rest(_, _)
debug_rest(dice, i) ==
    IF i > Len(dice) THEN <<>>
    ELSE <<" ">> \o to_decimal(current_face(dice[i])) \o debug_rest(dice, i + 1)

\* Debug that writes nothing for an empty pool
Dice_debug_empty_ok(dice) ==
    IF Len(dice) = 0 THEN FmtOk(<<>>)
    ELSE FmtOk(to_decimal(current_face(dice[1])) \o debug_rest(dice, 2))

\* impl fmt::Debug for Dice
Dice_debug(dice) ==
    IF Len(dice) = 0 THEN FmtErr
    ELSE FmtOk(to_decimal(current_face(dice[1])) \o debug_rest(dice, 2))

----------------------------------------------------------------------------
(* The caller.  result: op is the call, slot its Dice binding, n and f the *)
(* count and faces it was given, input its string, kind how it ended (Ok,  *)
(* Err or Panic), msg the Err message, v the value returned, draws the     *)
(* random values it took, text what it formatted.                          *)

NoArgs == [slot |-> "A", n |-> 0, f |-> 0, input |-> <<>>]
NoResult ==
    [op |-> "none", args |-> NoArgs, kind |-> "Ok", msg |-> "", v |-> 0, draws |-> 0,
     text |-> <<>>]

Res(op, args, kind, msg, v, draws) ==
    [op |-> op, args |-> args, kind |-> kind, msg |-> msg, v |-> v, draws |-> draws,
     text |-> <<>>]


OnSlot(s) == [NoArgs EXCEPT !.slot = s]

\* format! and println! panic when the formatter returns Err(fmt::Error)
FmtError == "a formatting trait implementation returned an error"

Formatted(op, s, o) ==
    [Res(op, OnSlot(s), IF o.kind = "Ok" THEN "Ok" ELSE "Panic",
         IF o.kind = "Err" THEN FmtError ELSE "", 0, 0) EXCEPT !.text = o.text]

\* a panic ends the process
Running == result.kind # "Panic"

RECURSIVE Product(_, _)
Product(dice, k) == IF k = 0 THEN 1 ELSE dice[k].faces * Product(dice, k - 1)

RECURSIVE Pow(_, _)
Pow(b, e) == IF e = 0 THEN 1 ELSE b * Pow(b, e - 1)

Alive ==
    Len(pools["A"].dice) + Len(pools["B"].dice) + (IF die.live THEN 1 ELSE 0)

Combos ==
    Product(pools["A"].dice, Len(pools["A"].dice))
        * Product(pools["B"].dice, Len(pools["B"].dice))
        * (IF die.live THEN die.faces ELSE 1)

\* the arbitrary caller has room for n more dice of the given faces
Room(n, faces) ==
    /\ Alive + n <= MaxDice
    /\ Combos * Pow(IF faces = 0 THEN 1 ELSE faces, n) <= MaxCombos

Callers == {"any", "coinflip", "parser", "quick", "edge", "main"}

\* the positional inputs of a run of the command line program
CliInputs ==
    { <<"1", "d", "2">>, <<"0", "d", "2">>, <<"1", "d", "0">>, <<"3", "-", "6">>,
      <<"x", "d", "2">> }

RECURSIVE ArgLists(_)
ArgLists(n) ==
    IF n = 0 THEN {<<>>}
    ELSE {Append(a, r) : a \in ArgLists(n - 1), r \in CliInputs}

\* DICE is required and takes at least one value; -c asks for every die
CliRuns ==
    [args : UNION {ArgLists(n) : n \in 1..MaxArgs}, complex : BOOLEAN,
     i : {1}, lines : {<<>>}]

NoCli == [args |-> <<>>, complex |-> FALSE, i |-> 1, lines |-> <<>>]

Init ==
    /\ rev \in Revisions
    /\ pools = [s \in Slots |-> NoPool]
    /\ die = NoDie
    /\ result = NoResult
    /\ pc \in Callers
    /\ cli \in IF pc = "main" THEN CliRuns ELSE {NoCli}

\* let die = Die::new(faces);
DieNew(faces) ==
    /\ Running /\ ~die.live
    /\ \E o \in Die_new(faces) :
         /\ die' = IF o.ok THEN [live |-> TRUE, faces |-> o.die.faces,
                                 current_value |-> o.die.current_value]
                   ELSE die
         /\ result' = Res("die_new", [NoArgs EXCEPT !.f = faces],
                          IF o.ok THEN "Ok" ELSE "Panic", "", 0, o.draws)
    /\ UNCHANGED <<rev, pools>>

\* let v = die.roll();
DieRoll ==
    /\ Running /\ die.live
    /\ \E o \in Die_roll([faces |-> die.faces, current_value |-> die.current_value]) :
         /\ die' = IF o.ok THEN [die EXCEPT !.current_value = o.die.current_value]
                   ELSE die
         /\ result' = Res("die_roll", NoArgs, IF o.ok THEN "Ok" ELSE "Panic", "",
                          o.die.current_value, o.draws)
    /\ UNCHANGED <<rev, pools>>

\* let s = Dice::new(n, faces);
DiceNew(s, n, faces) ==
    /\ Running /\ ~pools[s].live
    /\ \E o \in Dice_new(n, faces) :
         /\ pools' = IF o.ok THEN [pools EXCEPT ![s] = [live |-> TRUE, dice |-> o.dice]]
                     ELSE pools
         /\ result' = Res("new", [NoArgs EXCEPT !.slot = s, !.n = n, !.f = faces],
                          IF o.ok THEN "Ok" ELSE "Panic", "", 0, o.draws)
    /\ UNCHANGED <<rev, die>>

\* let s = Dice::from(Box::new([die]));
DiceFrom(s) ==
    /\ Running /\ ~pools[s].live /\ die.live
    /\ pools' = [pools EXCEPT ![s] =
                   [live |-> TRUE,
                    dice |-> Dice_from(<<[faces |-> die.faces,
                                          current_value |-> die.current_value]>>)]]
    /\ die' = NoDie
    /\ result' = Res("from", OnSlot(s), "Ok", "", 0, 0)
    /\ UNCHANGED rev

\* let s: Result<Dice<u8>, String> = input.parse();
Parse(s, input) ==
    /\ Running /\ ~pools[s].live
    /\ \E o \in from_str(input) :
         /\ pools' = IF o.kind = "Ok"
                     THEN [pools EXCEPT ![s] = [live |-> TRUE, dice |-> o.dice]]
                     ELSE pools
         /\ result' = Res("parse", [NoArgs EXCEPT !.slot = s, !.input = input],
                          o.kind, o.msg, 0, o.draws)
    /\ UNCHANGED <<rev, die>>

\* s.roll_all();
RollAll(s) ==
    /\ Running /\ pools[s].live
    /\ \E o \in roll_all(pools[s].dice) :
         /\ pools' = IF o.ok THEN [pools EXCEPT ![s].dice = o.dice] ELSE pools
         /\ result' = Res("roll_all", OnSlot(s), IF o.ok THEN "Ok" ELSE "Panic", "",
                          0, o.draws)
    /\ UNCHANGED <<rev, die>>

\* let t = s.total();
Total(s) ==
    /\ Running /\ pools[s].live
    /\ \E o \in total(pools[s].dice) :
         result' = Res("total", OnSlot(s), IF o.ok THEN "Ok" ELSE "Panic", "", o.v, 0)
    /\ UNCHANGED <<rev, pools, die>>

\* let r: Result<u8, String> = try_quickroll(input);
TryQuickroll(input) ==
    /\ Running
    /\ \E q \in try_quickroll(input) :
         result' = Res("try_quickroll", [NoArgs EXCEPT !.input = input],
                       q.kind, q.msg, q.v, q.draws)
    /\ UNCHANGED <<rev, pools, die>>

\* let v: u8 = quickroll(input);
Quickroll(input) ==
    /\ Running
    /\ \E q \in quickroll(input) :
         result' = Res("quickroll", [NoArgs EXCEPT !.input = input],
                       q.kind, q.msg, q.v, q.draws)
    /\ UNCHANGED <<rev, pools, die>>

\* let text = format!("{}", s);
Display(s) ==
    /\ Running /\ pools[s].live
    /\ \E o \in Dice_display(pools[s].dice) : result' = Formatted("display", s, o)
    /\ UNCHANGED <<rev, pools, die>>

\* let text = format!("{:?}", s);
Debug(s) ==
    /\ Running /\ pools[s].live
    /\ result' = Formatted("debug", s, Dice_debug(pools[s].dice))
    /\ UNCHANGED <<rev, pools, die>>

\* let a = a + b;  (both operands are moved, the sum is bound)
Add(a, b) ==
    /\ Running /\ a # b /\ pools[a].live /\ pools[b].live
    /\ pools' = [pools EXCEPT ![a] = [live |-> TRUE,
                                      dice |-> add(pools[a].dice, pools[b].dice)],
                              ![b] = NoPool]
    /\ result' = Res("add", OnSlot(a), "Ok", "", 0, 0)
    /\ UNCHANGED <<rev, die>>

\* the binding goes out of scope
Drop(s) ==
    /\ Running /\ pools[s].live
    /\ pools' = [pools EXCEPT ![s] = NoPool]
    /\ result' = Res("drop", OnSlot(s), "Ok", "", 0, 0)
    /\ UNCHANGED <<rev, die>>

\* an arbitrary caller, within MaxDice and MaxCombos
AnyCaller ==
    /\ pc = "any"
    /\ \/ \E f \in FaceInputs : Room(1, f) /\ DieNew(f)
       \/ DieRoll
       \/ \E s \in Slots, n \in 0..MaxDice, f \in FaceInputs : Room(n, f) /\ DiceNew(s, n, f)
       \/ \E s \in Slots : DiceFrom(s)
       \/ \E s \in Slots, input \in Notations :
            /\ LET a == parse_operands(input) IN a.kind = "Ok" => Room(a.n, a.f)
            /\ Parse(s, input)
       \/ \E s \in Slots : RollAll(s)
       \/ \E s \in Slots : Total(s)
       \/ \E a \in Slots, b \in Slots : Add(a, b)
       \/ \E s \in Slots : Drop(s)
    /\ UNCHANGED pc

\* tests/readme.rs, usage_example
UsageExample ==
    \/ pc = "coinflip" /\ Quickroll(<<"1", "d", "2">>) /\ pc' = "set_1"
    \/ pc = "set_1" /\ DiceNew("A", 2, 4) /\ pc' = "set_2"
    \/ pc = "set_2" /\ Parse("B", <<"1", "d", "2", "0">>) /\ pc' = "combine"
    \/ pc = "combine" /\ Add("A", "B") /\ pc' = "loop"
    \/ pc = "loop" /\ RollAll("A") /\ pc' = "loop_display"
    \/ pc = "loop_display" /\ Display("A") /\ pc' = "loop_total"
    \/ pc = "loop_total" /\ Total("A") /\ pc' = "loop"
    \/ pc = "loop" /\ Debug("A") /\ pc' = "done"

\* a caller that parses any string and prints the pool, again and again:
\* the examples whatever their size, the generated strings within MaxDice
\* and MaxCombos
Parser ==
    /\ pc = "parser"
    /\ \/ \E input \in Inputs :
            /\ input \in Examples
               \/ LET a == parse_operands(input) IN a.kind = "Ok" => Room(a.n, a.f)
            /\ Parse("A", input)
       \/ Display("A")
       \/ Debug("A")
       \/ Drop("A")
    /\ UNCHANGED pc

\* a caller that quick-rolls any string once, within the same sizes
QuickCaller ==
    /\ pc = "quick"
    /\ \E input \in Inputs :
         /\ input \in Examples
            \/ LET a == parse_operands(input) IN a.kind = "Ok" => Room(a.n, a.f)
         /\ TryQuickroll(input) \/ Quickroll(input)
    /\ pc' = "quick_done"

\* a caller at the maximum of the face type
EdgeCaller ==
    \/ pc = "edge" /\ DieNew(FaceMax) /\ pc' = "edge_die"
    \/ pc = "edge_die" /\ DieRoll /\ pc' = pc
    \/ pc = "edge" /\ (\E p \in EdgePools : DiceNew("A", p[1], p[2])) /\ pc' = "edge_total"
    \/ pc = "edge_total" /\ Total("A") /\ pc' = pc

\* println!("{}: {}", roll, x) and eprintln!("{}: {}", roll, e): one line
Line(stream, arg, rendered) ==
    [stream |-> stream, line |-> arg \o <<":", " ">> \o rendered]

\* one turn of the for loop of main: the lazy map parses the next input,
\* the match prints it; the pool is dropped at the end of the turn
MainLoop ==
    /\ pc = "main" /\ Running /\ cli.i <= Len(cli.args)
    /\ LET arg == cli.args[cli.i]
           args == [NoArgs EXCEPT !.input = arg]
       IN  \E o \in from_str(arg) :
             \/ /\ o.kind = "Panic"
                /\ result' = Res("main", args, "Panic", "", 0, o.draws)
                /\ cli' = cli
             \/ /\ o.kind = "Err"
                /\ result' = Res("main", args, "Err", o.msg, 0, o.draws)
                /\ cli' = [cli EXCEPT !.i = @ + 1,
                                      !.lines = Append(@, Line("stderr", arg, <<o.msg>>))]
             \/ /\ o.kind = "Ok"
                /\ \E f \in IF cli.complex THEN {Dice_debug(o.dice)}
                                            ELSE Dice_display(o.dice) :
                     IF f.kind = "Ok"
                     THEN /\ result' = [Res("main", args, "Ok", "", 0, o.draws)
                                           EXCEPT !.text = f.text]
                          /\ cli' = [cli EXCEPT !.i = @ + 1,
                                       !.lines = Append(@, Line("stdout", arg, f.text))]
                     ELSE /\ result' = Res("main", args, "Panic",
                                            IF f.kind = "Err" THEN FmtError ELSE "",
                                            0, o.draws)
                          /\ cli' = cli
    /\ UNCHANGED <<rev, pools, die, pc>>

\* the loop is over: main returns
MainReturn ==
    /\ pc = "main" /\ Running /\ cli.i > Len(cli.args)
    /\ pc' = "main_done"
    /\ UNCHANGED <<rev, pools, die, result, cli>>

Main == MainLoop \/ MainReturn

Next ==
    \/ AnyCaller /\ UNCHANGED cli
    \/ UsageExample /\ UNCHANGED cli
    \/ Parser /\ UNCHANGED cli
    \/ QuickCaller /\ UNCHANGED cli
    \/ EdgeCaller /\ UNCHANGED cli
    \/ Main

Spec == Init /\ [][Next]_vars

----------------------------------------------------------------------------
(* Notation, read independently of from_str *)

IsSep(c) == c = "d"

CountD(s) == Cardinality({i \in 1..Len(s) : IsSep(s[i])})

\* the position of the k-th separator of s, Len(s) + 1 when there is none
SepAt(s, k) ==
    LET ds == {i \in 1..Len(s) : IsSep(s[i]) /\ Cardinality({j \in 1..i : IsSep(s[j])}) = k}
    IN  IF ds = {} THEN Len(s) + 1 ELSE CHOOSE i \in ds : TRUE

\* the text before the first separator, and the text after it up to the next
CountText(s) == SubSeq(s, 1, SepAt(s, 1) - 1)
FaceText(s) == SubSeq(s, SepAt(s, 1) + 1, SepAt(s, 2) - 1)

IsLiteral(p) == Len(p) >= 1 /\ \A i \in 1..Len(p) : p[i] \in Digits

\* a numeric operand: a literal, or a literal after a '+' sign
IsNumeric(p) == IsLiteral(IF Len(p) >= 1 /\ p[1] = "+" THEN Tail(p) ELSE p)

RECURSIVE LiteralValue(_)
LiteralValue(p) ==
    IF Len(p) = 0 THEN 0
    ELSE 10 * LiteralValue(SubSeq(p, 1, Len(p) - 1)) + DigitVal(p[Len(p)])

\* s is "NdM": one separator between two literals, M a value of the face type
IsNdM(s) ==
    /\ CountD(s) = 1
    /\ IsLiteral(CountText(s)) /\ IsLiteral(FaceText(s))
    /\ LiteralValue(FaceText(s)) <= FaceMax

\* the value of the count operand, a literal after an optional sign
CountValue(s) ==
    LET p == CountText(s)
    IN  LiteralValue(IF Len(p) >= 1 /\ p[1] = "+" THEN Tail(p) ELSE p)

RECURSIVE MathSum(_)
MathSum(fs) == IF Len(fs) = 0 THEN 0 ELSE fs[1] + MathSum(Tail(fs))

InRange(d) == 1 <= d.current_value /\ d.current_value <= d.faces

ParsedPool == pools[result.args.slot]

----------------------------------------------------------------------------
(* Claims *)

\* C1: every die with faces >= 1, up to the maximum of the face type, shows a
\* value in [1, faces], in the Die binding and in every pool, whatever calls
\* built and rolled it; the pool Dice::new(2,4) + parse("1d20") has 3 dice and
\* a total in [3, 28] before and after every roll_all.
DieInRange ==
    /\ \A s \in Slots : \A i \in 1..Len(pools[s].dice) :
         pools[s].dice[i].faces >= 1 => InRange(pools[s].dice[i])
    /\ (die.live /\ die.faces >= 1) => InRange(die)
    /\ pc \in {"loop", "loop_display", "loop_total", "done"} =>
         /\ Len(current_faces(pools["A"].dice)) = 3
         /\ \A o \in total(pools["A"].dice) : o.ok /\ 3 <= o.v /\ o.v <= 28
         /\ result.op = "total" => result.kind = "Ok" /\ 3 <= result.v /\ result.v <= 28

WitnessDieInRange ==
    /\ pc = "loop" /\ result.op = "total" /\ result.v = 28
    /\ current_faces(pools["A"].dice) = <<4, 4, 20>>

\* C2: Dice::new(n, faces) with n >= 0 and faces >= 1 returns a pool whose
\* current_faces() has length n, each element in [1, faces]; n = 0 gives a
\* valid empty pool.
NewHasCountDice ==
    (result.op = "new" /\ result.args.f >= 1) =>
        /\ result.kind = "Ok"
        /\ pools[result.args.slot].live
        /\ LET fs == current_faces(pools[result.args.slot].dice)
           IN  /\ Len(fs) = result.args.n
               /\ \A i \in 1..Len(fs) : 1 <= fs[i] /\ fs[i] <= result.args.f

WitnessNewHasCountDice ==
    /\ result.op = "new" /\ result.args.n = 3 /\ result.args.f = 2
    /\ current_faces(pools[result.args.slot].dice) = <<2, 1, 2>>

\* C3 as stated: total() is the sum of current_faces(), and for a pool built
\* by Dice::new(n, faces), whose n dice all have the same faces, it lies in
\* [n, n * faces].
TotalIsSum ==
    result.op = "total" =>
        LET dice == pools[result.args.slot].dice
            n == Len(dice)
        IN  /\ result.kind = "Ok"
            /\ result.v = MathSum(current_faces(dice))
            /\ \A f \in 1..FaceMax :
                 (\A i \in 1..n : dice[i].faces = f) => (n <= result.v /\ result.v <= n * f)

\* C4: parsing "NdM" (M >= 1) succeeds and gives what Dice::new(N, M) gives:
\* a pool of exactly N dice, each with faces M and a value in [1, M].
ParseBuildsNdM ==
    (result.op = "parse" /\ IsNdM(result.args.input)
        /\ LiteralValue(FaceText(result.args.input)) >= 1) =>
        LET N == LiteralValue(CountText(result.args.input))
            M == LiteralValue(FaceText(result.args.input))
        IN  /\ result.kind = "Ok"
            /\ ParsedPool.live
            /\ Len(ParsedPool.dice) = N
            /\ result.draws = N
            /\ \A i \in 1..Len(ParsedPool.dice) :
                 /\ ParsedPool.dice[i].faces = M
                 /\ InRange(ParsedPool.dice[i])
            /\ \E o \in Dice_new(N, M) : o.ok /\ o.dice = ParsedPool.dice

WitnessParseBuildsNdM ==
    /\ result.op = "parse" /\ result.args.input = <<"3", "d", "6">>
    /\ result.kind = "Ok"
    /\ current_faces(ParsedPool.dice) = <<6, 1, 3>>

\* C5 as stated: a string with more than one 'd', with no 'd', or with a
\* non-numeric operand is rejected with an error; only a string that splits
\* on 'd' into exactly two substrings parses.
ParseIsStrict ==
    result.op = "parse" =>
        /\ (CountD(result.args.input) # 1
              \/ ~IsNumeric(CountText(result.args.input))
              \/ ~IsNumeric(FaceText(result.args.input))) => result.kind = "Err"
        /\ result.kind = "Ok" => CountD(result.args.input) = 1

\* C6 as stated: a pool returned by the parser has at least one die.
ParseNeverEmpty ==
    (result.op = "parse" /\ result.kind = "Ok") => Len(ParsedPool.dice) >= 1

\* C6 amended: a pool returned by the parser has as many dice as the count
\* operand says, so it is empty exactly when the count operand is zero.
ParseEmptyIffZeroCount ==
    (result.op = "parse" /\ result.kind = "Ok") =>
        LET N == CountValue(result.args.input)
        IN  /\ ParsedPool.live
            /\ Len(ParsedPool.dice) = N
            /\ (Len(ParsedPool.dice) = 0) <=> (N = 0)

WitnessParseEmptyIffZeroCount ==
    /\ result.op = "parse" /\ result.args.input = <<"0", "d", "1">>
    /\ result.kind = "Ok" /\ ParsedPool.live /\ Len(ParsedPool.dice) = 0

\* C7 as stated: from_str returns Ok or Err on every string and never aborts
\* the process.
ParseNeverPanics ==
    result.op = "parse" => result.kind \in {"Ok", "Err"}

\* C8: a string without 'd' is rejected with "Missing 'd'", whatever else it
\* holds; a string with a 'd' and a non-numeric count or face operand is
\* rejected with "Improper dice format"; the two messages differ.
ErrorsByCause ==
    /\ MissingD # ImproperFormat
    /\ result.op = "parse" =>
         LET s == result.args.input
         IN  /\ CountD(s) = 0 => (result.kind = "Err" /\ result.msg = MissingD)
             /\ (CountD(s) >= 1 /\ (~IsNumeric(CountText(s)) \/ ~IsNumeric(FaceText(s)))) =>
                  (result.kind = "Err" /\ result.msg = ImproperFormat)

WitnessErrorsByCause ==
    /\ result.op = "parse" /\ result.args.input = <<"3", "-", "6">>
    /\ result.kind = "Err" /\ result.msg = MissingD

\* C9: a + b is a's dice in order followed by b's dice in order, each die
\* with its faces and its value, so its size is the sum of the sizes; and
\* (A + B) + C and A + (B + C) have the same current_faces().
AddConcatenates ==
    [][ /\ result'.op = "add" =>
            LET a == result'.args.slot
                b == CHOOSE s \in Slots : s # a
                l == pools[a].dice
                r == pools[b].dice
                sum == pools'[a].dice
            IN  /\ pools[a].live /\ pools[b].live
                /\ pools'[a].live /\ ~pools'[b].live
                /\ Len(sum) = Len(l) + Len(r)
                /\ \A i \in 1..Len(l) : sum[i] = l[i]
                /\ \A i \in 1..Len(r) : sum[Len(l) + i] = r[i]
                /\ die' = die
        /\ (pools'["A"].live /\ pools'["B"].live /\ die'.live) =>
            LET A == pools'["A"].dice
                B == pools'["B"].dice
                C == Dice_from(<<[faces |-> die'.faces,
                                  current_value |-> die'.current_value]>>)
                left == current_faces(add(add(A, B), C))
            IN  /\ left = current_faces(add(A, add(B, C)))
                /\ left = current_faces(A) \o current_faces(B) \o current_faces(C)
      ]_vars

WitnessAddConcatenates ==
    /\ result.op = "add" /\ pc = "loop"
    /\ current_faces(pools["A"].dice) = <<1, 4, 20>>
    /\ ~pools["B"].live

\* C10: roll_all rolls every die of the pool once and changes nothing else:
\* the pool keeps its length, its order and the faces of every die, the other
\* bindings are untouched, and only current values may differ.
RollAllKeepsShape ==
    [][ result'.op = "roll_all" =>
            LET s == result'.args.slot
                before == pools[s].dice
                after == pools'[s].dice
            IN  /\ result'.kind = "Ok"
                /\ pools'[s].live
                /\ Len(after) = Len(before)
                /\ \A i \in 1..Len(before) :
                     after[i].faces = before[i].faces /\ InRange(after[i])
                /\ result'.draws = Len(before)
                /\ \A o \in Slots \ {s} : pools'[o] = pools[o]
                /\ die' = die /\ rev' = rev
      ]_vars

WitnessRollAllKeepsShape ==
    /\ result.op = "roll_all" /\ pc = "loop_display" /\ result.draws = 3
    /\ current_faces(pools["A"].dice) = <<4, 1, 17>>

\* the text is the decimal rendering of v: digits only, no leading zero
Renders(text, v) ==
    /\ IsLiteral(text) /\ LiteralValue(text) = v
    /\ Len(text) > 1 => text[1] # "0"

\* C11: the compact rendering of a pool is the rendering of its total(); the
\* read operations (total, compact and verbose display) change no die and
\* no binding; a total() taken right after formatting the same pool, with no
\* roll in between, is the value that was formatted.
DisplayIsTotal ==
    [][ /\ result'.op \in {"display", "debug", "total"} =>
            (pools' = pools /\ die' = die /\ rev' = rev)
        /\ (result'.op = "display" /\ result'.kind = "Ok") =>
            \E t \in total(pools[result'.args.slot].dice) :
                t.ok /\ Renders(result'.text, t.v)
        /\ (result'.op = "display" /\ result'.kind # "Ok") =>
            \E t \in total(pools[result'.args.slot].dice) : ~t.ok
        /\ (result.op = "display" /\ result.kind = "Ok" /\ result'.op = "total"
              /\ result'.kind = "Ok" /\ result'.args.slot = result.args.slot) =>
            Renders(result.text, result'.v)
      ]_vars

WitnessDisplayIsTotal ==
    /\ pc = "loop" /\ result.op = "total" /\ result.v = 17
    /\ current_faces(pools["A"].dice) = <<3, 2, 12>>

\* C12: the verbose rendering of a pool of k >= 1 dice is its k current
\* faces in pool order, separated by single spaces, with no leading or
\* trailing separator; the formatter returns an error exactly when the pool
\* is empty.
DebugListsFaces ==
    result.op = "debug" =>
        LET fs == current_faces(pools[result.args.slot].dice)
            parts == split(result.text, " ", 1, <<>>)
        IN  /\ (result.msg = FmtError) <=> (Len(fs) = 0)
            /\ (result.kind # "Ok") <=> (Len(fs) = 0)
            /\ Len(fs) >= 1 =>
                 /\ Len(parts) = Len(fs)
                 /\ \A i \in 1..Len(fs) : Renders(parts[i], fs[i])

WitnessDebugListsFaces ==
    /\ result.op = "debug" /\ result.kind = "Ok"
    /\ current_faces(pools[result.args.slot].dice) = <<4, 1, 20>>
    /\ result.text = <<"4", " ", "1", " ", "2", "0">>

\* C13: the command line program processes every positional input in order,
\* in compact and in verbose mode: no input aborts it, each processed input
\* has exactly one line, "<input>: <rendered>" on stdout when it parses and
\* "<input>: <message>" on stderr when it does not, and when main returns
\* every input has its line.
CliProcessesEveryInput ==
    pc \in {"main", "main_done"} =>
        /\ result.kind # "Panic"
        /\ Len(cli.lines) = cli.i - 1
        /\ pc = "main_done" => Len(cli.lines) = Len(cli.args)
        /\ \A j \in 1..Len(cli.lines) :
             LET arg == cli.args[j]
                 l == cli.lines[j]
                 rest == SubSeq(l.line, Len(arg) + 3, Len(l.line))
             IN  /\ SubSeq(l.line, 1, Len(arg) + 2) = arg \o <<":", " ">>
                 /\ IF IsNdM(arg)
                    THEN l.stream = "stdout" /\ rest # <<>>
                    ELSE l.stream = "stderr" /\ rest \in {<<MissingD>>, <<ImproperFormat>>}

\* C14: the quick-roll helpers are a composition of parse and total:
\* try_quickroll(s) returns Err(e) exactly when parsing s returns Err(e) and
\* otherwise Ok(t), t a total of the freshly parsed pool; quickroll(s)
\* returns such a total on exactly the inputs where try_quickroll returns
\* Ok and panics on exactly the inputs where it returns Err; quickroll of
\* "1d2" is always 1 or 2.
QuickrollComposes ==
    LET s == result.args.input
        parsed == from_str(s)
        errs == {o \in parsed : o.kind = "Err"}
        totals == UNION { {t.v : t \in {u \in total(o.dice) : u.ok}}
                          : o \in {a \in parsed : a.kind = "Ok"} }
    IN  /\ result.op = "try_quickroll" =>
             IF errs # {}
             THEN result.kind = "Err" /\ \E o \in errs : result.msg = o.msg
             ELSE result.kind = "Ok" /\ result.v \in totals
        /\ result.op = "quickroll" =>
             /\ (result.kind = "Ok") <=> (\E q \in try_quickroll(s) : q.kind = "Ok")
             /\ (result.kind = "Panic") <=> (\E q \in try_quickroll(s) : q.kind = "Err")
             /\ result.kind = "Ok" => result.v \in totals
        /\ (result.op = "quickroll" /\ s = <<"1", "d", "2">>) =>
             (result.kind = "Ok" /\ result.v \in {1, 2})

\* C15: a failed parse has no side effect: when from_str returns Err no die
\* has been constructed, no binding has changed and no random value has
\* been drawn; a parse draws random values only when it succeeds, and then
\* exactly one per die, N for "NdM".
ParseDrawsOnlyOnSuccess ==
    [][ result'.op = "parse" =>
          /\ result'.kind = "Err" =>
               (pools' = pools /\ die' = die /\ result'.draws = 0)
          /\ result'.draws > 0 => result'.kind = "Ok"
          /\ result'.kind = "Ok" =>
               /\ result'.draws = CountValue(result'.args.input)
               /\ Len(pools'[result'.args.slot].dice) = result'.draws
      ]_vars

====
